---------------------------- MODULE Spec2Model ----------------------------
(***************************************************************************)
(* DataContext of great_expectations/data_context/base.py: the evaluation  *)
(* parameter machinery (save_data_asset_config, _compile,                  *)
(* register_validation_results, store/get_validation_param,                *)
(* bind_evaluation_parameters).                                            *)
(*                                                                         *)
(* A Python str is a sequence of one-character strings, so that            *)
(* str.split(":"), str.startswith and the unpacking of a str into two      *)
(* names are computed, not assumed.  A Python dict is a function, a Python *)
(* set a set.  A raised exception is recorded in exc; the state changes    *)
(* made before the raise are kept, as in Python.                           *)
(***************************************************************************)
EXTENDS Naturals, Integers, Sequences, FiniteSets, TLC

VARIABLES
    files,                \* the directory: data_asset_name -> config document (the *.json files)
    listing,              \* os.listdir order of the *.json files (asset names)
    validation_params,    \* self.validation_params
    compiled,             \* self._compiled
    compiled_parameters,  \* self._compiled_parameters
    call,                 \* the last call made on the context and its arguments
    exc,                  \* exception the last call raised, "none" if it returned
    warnings,             \* logger.warning calls of the last call, by emitting method
    ret,                  \* value the last call returned
    ncalls,               \* calls made on the context so far
    pc,                   \* thread -> the place of the thread in the call it is making
    locals                \* thread -> the arguments and local names of that call

vars == <<files, listing, validation_params, compiled, compiled_parameters,
          call, exc, warnings, ret, ncalls, pc, locals>>

----------------------------------------------------------------------------
(* Python strings *)

S_PREFIX == <<"u","r","n",":","g","r","e","a","t","_","e","x","p","e","c","t","a","t","i","o","n","s",":","v","a","l","i","d","a","t","i","o","n","s",":">>
S_expectations == <<"e","x","p","e","c","t","a","t","i","o","n","s">>
S_result == <<"r","e","s","u","l","t">>
S_results == <<"r","e","s","u","l","t","s">>
S_details == <<"d","e","t","a","i","l","s">>
S_columns == <<"c","o","l","u","m","n","s">>
S_key == <<"k","e","y">>
S_other == <<"u","r","n",":","o","t","h","e","r",":">>

\* str.startswith
StartsWith(s, p) == Len(s) >= Len(p) /\ SubSeq(s, 1, Len(p)) = p

\* the places of the separator in s
Separators(s) == {i \in 1..Len(s) : s[i] = ":"}

\* the place of the k-th separator of seps; 0 stands before the first part and
\* n + 1 after the last
Cut(seps, n, k) ==
    IF k = 0 THEN 0
    ELSE IF k > Cardinality(seps) THEN n + 1
    ELSE CHOOSE i \in seps : Cardinality({j \in seps : j < i}) = k - 1

\* the parts of s between the separators seps
SplitAt(s, seps) ==
    [k \in 1..(Cardinality(seps) + 1) |->
        SubSeq(s, Cut(seps, Len(s), k - 1) + 1, Cut(seps, Len(s), k) - 1)]

\* str.split(":"): one part more than there are separators, empty parts kept
Split(s) == SplitAt(s, Separators(s))

\* ":".join(parts), used to write the identifiers of the input pools
RECURSIVE Join(_)
Join(parts) ==
    IF Len(parts) = 0 THEN <<>>
    ELSE IF Len(parts) = 1 THEN parts[1]
    ELSE parts[1] \o <<":">> \o Join(Tail(parts))

\* list[i] with Python's zero-based index
At(list, i) == list[i + 1]

\* list[-1]
Last(list) == list[Len(list)]

----------------------------------------------------------------------------
(* Python values *)

\* d[k] = v on a dict
Put(d, k, v) == [x \in (DOMAIN d) \cup {k} |-> IF x = k THEN v ELSE d[x]]

EmptyDict == <<>>

\* values found in a result map and kept in validation_params
PyNone == [t |-> "None", n |-> 0, d |-> <<>>]
PyInt(n) == [t |-> "int", n |-> n, d |-> <<>>]
PyDict(d) == [t |-> "dict", n |-> 0, d |-> d]

\* value of _compiled_parameters["data_assets"][asset][expectation_name]:
\* the dict made on line 187, or the set() line 191 puts in its place.
\* The dict has two kinds of values: d holds the keys whose value is a dict
\* (a column: type_key -> set), sets the keys whose value is a set.
KindDict(d, sets) == [isset |-> FALSE, d |-> d, sets |-> sets]
KindSet == [isset |-> TRUE, d |-> <<>>, sets |-> <<>>]

\* the keys of that value ("key in value")
KindKeys(kv) == (DOMAIN kv.d) \cup (DOMAIN kv.sets)

\* an expectation kwarg value: {"$PARAMETER": text}, or a literal
Reference(text) == [isdict |-> TRUE, PARAMETER |-> text]
Literal == [isdict |-> FALSE, PARAMETER |-> <<>>]

----------------------------------------------------------------------------
(* _compile *)

\* list_data_asset_configs(): the names of the *.json files, in os.listdir order
list_data_asset_configs == listing

\* a compile that patches the index it finds
KeptCompiledParameters == compiled_parameters

\* the index _compile starts from (lines 162-165)
FreshCompiledParameters == [raw |-> {}, data_assets |-> EmptyDict]

\* result of the body of the innermost loop for one parameter
Continue(raw, da, w) ==
    [cp |-> [raw |-> raw, data_assets |-> da], warnings |-> w, exc |-> "none"]
Raise(raw, da, w, e) ==
    [cp |-> [raw |-> raw, data_assets |-> da], warnings |-> w, exc |-> e]

\* lines 197-199: the set of the column's type_key, made when missing, gets
\* the parameter
AddToColumn(da, p3, p5, p7, p8, parameter) ==
    [da EXCEPT ![p3][p5].d[p7] =
        Put(@, p8, (IF p8 \in DOMAIN @ THEN @[p8] ELSE {}) \cup {parameter})]

\* lines 197-199; param_parts[8] is read first (IndexError), then a key whose
\* value is a set cannot take an item (TypeError)
LeafStep(raw, da, w, param_parts, parameter) ==
    IF Len(param_parts) < 9 THEN Continue(raw, da, w + 1)
    ELSE IF At(param_parts, 7) \in DOMAIN da[At(param_parts, 3)][At(param_parts, 5)].sets
    THEN Raise(raw, da, w, "TypeError")
    ELSE Continue(raw,
                  AddToColumn(da, At(param_parts, 3), At(param_parts, 5),
                              At(param_parts, 7), At(param_parts, 8), parameter),
                  w)

\* lines 195-196: the column's dict, made when missing
WithColumn(da, p3, p5, p7) ==
    IF p7 \notin KindKeys(da[p3][p5])
    THEN [da EXCEPT ![p3][p5].d = Put(@, p7, EmptyDict)]
    ELSE da

\* lines 194-199
ColumnStep(raw, da, w, param_parts, parameter) ==
    IF Len(param_parts) < 8 THEN Continue(raw, da, w + 1)
    ELSE IF da[At(param_parts, 3)][At(param_parts, 5)].isset
    THEN Raise(raw, da, w, "TypeError")
    ELSE LeafStep(raw,
                  WithColumn(da, At(param_parts, 3), At(param_parts, 5),
                             At(param_parts, 7)),
                  w, param_parts, parameter)

\* lines 189-192: the test is on "results", and a missing key makes line 191
\* replace the rule kind's dict by set(), which line 192 then subscripts
\* (TypeError); a key that holds a column dict has no add (AttributeError)
NonColumnStep(raw, da, w, p3, p5, p6, parameter) ==
    IF da[p3][p5].isset \/ p6 \notin KindKeys(da[p3][p5])
    THEN Raise(raw, [da EXCEPT ![p3][p5] = KindSet], w, "TypeError")
    ELSE IF p6 \in DOMAIN da[p3][p5].sets
    THEN Continue(raw, [da EXCEPT ![p3][p5].sets[p6] = @ \cup {parameter}], w)
    ELSE Raise(raw, da, w, "AttributeError")

\* lines 189-202
BranchStep(raw, da, w, param_parts, parameter) ==
    IF Len(param_parts) < 7 THEN Continue(raw, da, w + 1)
    ELSE IF At(param_parts, 6) \in {S_results, S_details}
    THEN NonColumnStep(raw, da, w, At(param_parts, 3), At(param_parts, 5),
                       At(param_parts, 6), parameter)
    ELSE IF At(param_parts, 6) = S_columns
    THEN ColumnStep(raw, da, w, param_parts, parameter)
    ELSE Continue(raw, da, w + 1)

\* lines 186-187: the rule kind's dict, made when missing
WithKind(da, p3, p5) ==
    IF p5 \notin DOMAIN da[p3]
    THEN [da EXCEPT ![p3] = Put(@, p5, KindDict(EmptyDict, EmptyDict))]
    ELSE da

\* lines 186-202
KindStep(raw, da, w, param_parts, parameter) ==
    IF Len(param_parts) < 6 THEN Continue(raw, da, w + 1)
    ELSE BranchStep(raw, WithKind(da, At(param_parts, 3), At(param_parts, 5)),
                    w, param_parts, parameter)

\* lines 183-184: the asset's dict, made when missing
WithAsset(da, p3) ==
    IF p3 \notin DOMAIN da THEN Put(da, p3, EmptyDict) ELSE da

\* lines 180-181: the warning for an asset without a config file
UnknownAssetWarning(known_assets, p3) == IF p3 \notin known_assets THEN 1 ELSE 0

\* lines 180-202
AssetStep(raw, da, known_assets, param_parts, parameter) ==
    IF Len(param_parts) < 4 THEN Continue(raw, da, 1)
    ELSE KindStep(raw, WithAsset(da, At(param_parts, 3)),
                  UnknownAssetWarning(known_assets, At(param_parts, 3)),
                  param_parts, parameter)

\* lines 176-204 for one parameter that passed the startswith test.
\* An IndexError is caught on line 203 and costs one warning, what the try
\* block did before it stays; TypeError and AttributeError are not caught
\* and leave _compile.
CompileParameter(cp, known_assets, parameter) ==
    AssetStep(cp.raw \cup {parameter}, cp.data_assets, known_assets,
              Split(parameter), parameter)

\* a test that takes every reference, whatever its prefix
IsCompiledValueAnyPrefix(value) == value.isdict

\* lines 173-175: is this kwarg value a parameter that _compile respects
IsCompiledValue(value) ==
    value.isdict /\ StartsWith(value.PARAMETER, S_PREFIX)

\* the kwarg values of one config document, in the order of lines 171-172
RECURSIVE ConfigValues(_)
ConfigValues(expectations) ==
    IF expectations = <<>> THEN <<>>
    ELSE Head(expectations).kwargs \o ConfigValues(Tail(expectations))

\* the kwarg values of all config files, in the order of line 169
RECURSIVE AllValues(_, _)
AllValues(fs, names) ==
    IF names = <<>> THEN <<>>
    ELSE ConfigValues(fs[Head(names)].expectations) \o AllValues(fs, Tail(names))

RECURSIVE CompileLoop(_, _, _, _)

\* after one parameter: an uncaught exception ends the loops
AfterParameter(r, known_assets, values, w) ==
    IF r.exc # "none"
    THEN [cp |-> r.cp, warnings |-> w + r.warnings, exc |-> r.exc]
    ELSE CompileLoop(r.cp, known_assets, values, w + r.warnings)

\* the loops of lines 169-204 over the remaining values
CompileLoop(cp, known_assets, values, w) ==
    IF values = <<>> THEN [cp |-> cp, warnings |-> w, exc |-> "none"]
    ELSE IF ~IsCompiledValue(Head(values))
    THEN CompileLoop(cp, known_assets, Tail(values), w)
    ELSE AfterParameter(CompileParameter(cp, known_assets, Head(values).PARAMETER),
                        known_assets, Tail(values), w)

\* a _compile that never marks the index compiled
CompileOutcomeUnmarked(r, was_compiled) ==
    [cp |-> r.cp, warnings |-> r.warnings, exc |-> r.exc, compiled |-> was_compiled]

\* line 205 is reached only when nothing was raised
CompileOutcome(r, was_compiled) ==
    [cp |-> r.cp, warnings |-> r.warnings, exc |-> r.exc,
     compiled |-> IF r.exc = "none" THEN TRUE ELSE was_compiled]

\* _compile (lines 161-205) on the directory fs listed in the order names:
\* the index it leaves, its warnings, the exception it raises, and _compiled
\* after it
CompileRun(fs, names, was_compiled) ==
    CompileOutcome(CompileLoop(FreshCompiledParameters,
                               {names[i] : i \in 1..Len(names)},
                               AllValues(fs, names), 0),
                   was_compiled)

----------------------------------------------------------------------------
(* register_validation_results, store/get_validation_param, bind *)

\* a store that is assigned the new entry instead of updated with it
store_validation_param_assigning(vp, key, value) == [x \in {key} |-> value]

\* store_validation_param (lines 114-115): dict.update({key: value})
store_validation_param(vp, key, value) == Put(vp, key, value)

\* get_validation_param (lines 117-121): looks up the literal "key"
get_validation_param(vp, key) ==
    IF S_key \in DOMAIN vp THEN vp[S_key] ELSE PyNone

\* bind_evaluation_parameters (lines 68-69)
bind_evaluation_parameters(vp, run_id) ==
    IF run_id \in DOMAIN vp THEN vp[run_id] ELSE PyDict(EmptyDict)

\* progress of one register_validation_results call after its compile
Progress(vp, w, e) == [vp |-> vp, warnings |-> w, exc |-> e]

\* lines 94-100 and 106-112: one desired parameter against one result
MatchParameter(type_key, desired_param, result, st) ==
    LET desired_key == Last(Split(desired_param))
        res == result.result
    IN  IF type_key = S_result /\ desired_key \in DOMAIN res
        THEN Progress(store_validation_param(st.vp, desired_param, res[desired_key]),
                      st.warnings, "none")
        ELSE IF type_key = S_details
        THEN IF S_details \notin DOMAIN res
             THEN Progress(st.vp, st.warnings, "KeyError")
             ELSE IF res[S_details].t # "dict"
             THEN Progress(st.vp, st.warnings, "TypeError")
             ELSE IF desired_key \in DOMAIN res[S_details].d
             THEN Progress(store_validation_param(st.vp, desired_param, res[S_details]),
                           st.warnings, "none")
             ELSE Progress(st.vp, st.warnings + 1, "none")
        ELSE Progress(st.vp, st.warnings + 1, "none")

\* lines 93-100: the desired parameters of one type_key; a set is iterated
\* in an order the program does not control
RECURSIVE DesiredLoop(_, _, _, _)
DesiredLoop(type_key, desired_parameters, result, st) ==
    IF desired_parameters = {} THEN {st}
    ELSE UNION { LET o == MatchParameter(type_key, p, result, st)
                 IN  IF o.exc # "none" THEN {o}
                     ELSE DesiredLoop(type_key, desired_parameters \ {p}, result, o)
                 : p \in desired_parameters }

\* line 91: the items of the column's dict.  Its key order is the insertion
\* order of _compile, which follows os.listdir; every order is allowed here.
RECURSIVE TypeKeyLoop(_, _, _, _)
TypeKeyLoop(column_dict, type_keys, result, st) ==
    IF type_keys = {} THEN {st}
    ELSE UNION { UNION { IF o.exc # "none" THEN {o}
                         ELSE TypeKeyLoop(column_dict, type_keys \ {tk}, result, o)
                         : o \in DesiredLoop(tk, column_dict[tk], result, st) }
                 : tk \in type_keys }

\* lines 87-100: the column-scoped pass.  asset_index is
\* _compiled_parameters["data_assets"][data_asset_name]; line 88 subscripts
\* it with "columns", a KeyError unless a rule kind of that name is indexed.
ColumnPass(asset_index, result, st) ==
    LET kwargs == result.expectation_config.kwargs
    IN  IF "column" \notin DOMAIN kwargs THEN {st}
        ELSE IF S_columns \notin DOMAIN asset_index
        THEN {Progress(st.vp, st.warnings, "KeyError")}
        ELSE LET cols == asset_index[S_columns]
                 column == kwargs["column"]
             IN  IF cols.isset \/ column \notin KindKeys(cols) THEN {st}
                 ELSE IF column \in DOMAIN cols.sets
                 THEN {Progress(st.vp, st.warnings, "AttributeError")}
                 ELSE TypeKeyLoop(cols.d[column], DOMAIN cols.d[column], result, st)

\* the characters of a str, in order (for desired_param in desired_parameters)
RECURSIVE CharLoop(_, _, _, _)
CharLoop(type_key, chars, result, st) ==
    IF chars = <<>> THEN st
    ELSE LET o == MatchParameter(type_key, <<Head(chars)>>, result, st)
         IN  IF o.exc # "none" THEN o
             ELSE CharLoop(type_key, Tail(chars), result, o)

\* lines 102-112: the loop iterates the dict itself, so each item is a key
\* (a rule kind name) and "type_key, desired_parameters = key" unpacks the
\* str: a ValueError unless the name has exactly two characters.
RECURSIVE NonColumnPass(_, _, _, _)
NonColumnPass(asset_index, keys, result, st) ==
    IF keys = {} THEN {st}
    ELSE UNION { IF Len(key) # 2
                 THEN {Progress(st.vp, st.warnings, "ValueError")}
                 ELSE LET type_key == <<key[1]>>
                          desired_parameters == <<key[2]>>
                          o == IF type_key = S_columns THEN st
                               ELSE CharLoop(type_key, desired_parameters, result, st)
                      IN  IF o.exc # "none" THEN {o}
                          ELSE NonColumnPass(asset_index, keys \ {key}, result, o)
                 : key \in keys }

\* lines 86-112 for one result
OneResult(asset_index, result, st) ==
    IF result.expectation_config.expectation_type \notin DOMAIN asset_index
    THEN {st}
    ELSE UNION { IF o.exc # "none" THEN {o}
                 ELSE NonColumnPass(asset_index, DOMAIN asset_index, result, o)
                 : o \in ColumnPass(asset_index, result, st) }

\* line 84
RECURSIVE ResultsLoop(_, _, _)
ResultsLoop(asset_index, results, st) ==
    IF results = <<>> THEN {st}
    ELSE UNION { IF o.exc # "none" THEN {o}
                 ELSE ResultsLoop(asset_index, Tail(results), o)
                 : o \in OneResult(asset_index, Head(results), st) }

\* line 78: is the asset a key of the index
AssetIsIndexed(cp, data_asset_name) == data_asset_name \in DOMAIN cp.data_assets

\* a short-circuit that logs
AbsentAssetOutcomeWarns(vp) == Progress(vp, 1, "none")

\* lines 79-80: the short-circuit for an asset nobody depends on
AbsentAssetOutcome(vp) == Progress(vp, 0, "none")

\* lines 75-112: what a registration does once the index is compiled
Match(cp, vp, validation_results) ==
    IF "data_asset_name" \notin DOMAIN validation_results.meta
    THEN {Progress(vp, 1, "none")}
    ELSE IF ~AssetIsIndexed(cp, validation_results.meta["data_asset_name"])
    THEN {AbsentAssetOutcome(vp)}
    ELSE ResultsLoop(cp.data_assets[validation_results.meta["data_asset_name"]],
                     validation_results.results, Progress(vp, 0, "none"))

----------------------------------------------------------------------------
(* Inputs *)

\* most result entries in one validation result
MaxResults == 2

\* most calls made on one context
MaxCalls == 4

A == <<"A">>
B == <<"B">>
K == <<"k">>
MN == <<"m","n">>
C == <<"c">>
X == <<"x">>
Y == <<"y">>
FOO == <<"f","o","o">>
R1 == <<"r","1">>
R2 == <<"r","2">>

Urn(tail) == S_PREFIX \o Join(tail)

\* the four documented forms, for asset A
U_col_result == Urn(<<A, S_expectations, K, S_columns, C, S_result, X>>)
U_result     == Urn(<<A, S_expectations, K, S_result, X>>)
U_details    == Urn(<<A, S_expectations, K, S_details, Y>>)
\* rule kinds named "columns" and "mn"
U_cc_result  == Urn(<<A, S_expectations, S_columns, S_columns, C, S_result, X>>)
U_cc_details == Urn(<<A, S_expectations, S_columns, S_columns, C, S_details, Y>>)
U_mn_result  == Urn(<<A, S_expectations, MN, S_columns, C, S_result, X>>)
\* malformed: too few segments, unknown branch keyword
U_short      == Urn(<<A>>)
U_badbranch  == Urn(<<A, S_expectations, K, FOO, X>>)
U_cut        == Urn(<<A, S_expectations, K, S_details>>)
\* a reference that is not a validations urn
U_other      == S_other \o X

Rule(kind, values) == [expectation_type |-> kind, kwargs |-> values]

\* the expectations lists saved for the consuming asset B
ExpectationsPoolB ==
    { << Rule(K, <<Reference(U_result), Reference(U_col_result)>>) >>,
      << Rule(K, <<Reference(U_details)>>) >>,
      << Rule(K, <<Reference(U_short), Reference(U_col_result)>>) >>,
      << Rule(K, <<Reference(U_col_result)>>), Rule(K, <<Reference(U_badbranch)>>) >>,
      << Rule(K, <<Reference(U_col_result)>>), Rule(K, <<Reference(U_cut)>>) >>,
      << Rule(K, <<Literal, Reference(U_other)>>) >>,
      << Rule(K, <<Reference(U_cc_result), Reference(U_cc_details)>>) >>,
      << Rule(K, <<Reference(U_mn_result)>>) >> }

\* the expectations lists saved for the producing asset A
ExpectationsPoolA ==
    { <<>>,
      << Rule(K, <<Reference(U_col_result)>>) >> }

AssetNames == {A, B}

Configs ==
    [data_asset_name : {A}, expectations : ExpectationsPoolA] \cup
    [data_asset_name : {B}, expectations : ExpectationsPoolB]

Entry(kind, kwargs, result, success) ==
    [expectation_config |-> [expectation_type |-> kind, kwargs |-> kwargs],
     result |-> result, success |-> success]

NoKwargs == <<>>
ColumnKwargs == [a \in {"column"} |-> C]

Details3 == PyDict([k \in {Y} |-> 3])
ResultX(n) == [k \in {X} |-> PyInt(n)]
ResultXD(n) == [k \in {X, S_details} |-> IF k = X THEN PyInt(n) ELSE Details3]

E_k       == Entry(K, NoKwargs, ResultX(5), FALSE)
E_k_col   == Entry(K, ColumnKwargs, ResultXD(7), TRUE)
E_cc      == Entry(S_columns, ColumnKwargs, ResultXD(5), TRUE)
E_cc_bare == Entry(S_columns, ColumnKwargs, ResultX(7), FALSE)
E_mn      == Entry(MN, NoKwargs, ResultX(5), TRUE)

EntryPool == {E_k, E_k_col, E_cc, E_cc_bare, E_mn}

\* the entries that follow another entry in a validation result
LaterPool == {E_cc, E_cc_bare}

ResultSeqs ==
    { s \in UNION { [1..n -> EntryPool] : n \in 0..MaxResults } :
        Len(s) >= 2 => \A i \in 1..Len(s) : s[i] \in LaterPool }

MetaOf(name) == [a \in {"data_asset_name"} |-> name]
NoMeta == <<>>

\* results registered for an asset that is not A, or without an asset name
OtherResults == { <<E_k>>, <<E_cc_bare, E_cc>> }

ValidationResults ==
    [meta : {MetaOf(A)}, results : ResultSeqs] \cup
    [meta : {MetaOf(B), NoMeta}, results : OtherResults]

RunIds == {R1, R2}
\* the run whose results are registered
RegisterRunIds == {R1}

NoValidationResults == [meta |-> <<>>, results |-> <<>>]
Call(op, run_id, vr, key, value) ==
    [op |-> op, run_id |-> run_id, validation_results |-> vr, key |-> key, value |-> value]

NoWarnings == [compile |-> 0, register |-> 0]

\* the threads that share one context
Threads == {"t1", "t2"}

\* a thread that is in no call.  checked is history: the index as it stood
\* when the thread got past lines 72-73
NoLocals ==
    [validation_results |-> NoValidationResults, known_assets |-> {},
     todo |-> <<>>, exc |-> "none",
     checked |-> [raw |-> {}, data_assets |-> EmptyDict]]

----------------------------------------------------------------------------
(* The context *)

\* stands for the attribute connect does not create
NoCompiledParameters == [raw |-> {}, data_assets |-> EmptyDict]

\* connect (lines 23-37) on an empty configuration directory.
\* _compiled_parameters does not exist until _compile first runs; nothing
\* reads it before, since _compiled starts False.
Init ==
    /\ files = <<>>
    /\ listing = <<>>
    /\ validation_params = EmptyDict
    /\ compiled = FALSE
    /\ compiled_parameters = NoCompiledParameters
    /\ call = Call("connect", <<>>, NoValidationResults, <<>>, PyNone)
    /\ exc = "none"
    /\ warnings = NoWarnings
    /\ ret = PyNone
    /\ ncalls = 0
    /\ pc = [t \in Threads |-> "idle"]
    /\ locals = [t \in Threads |-> NoLocals]

\* os.listdir after the file name was written: an existing name keeps its
\* place, a new name appears anywhere
ListingsAfterWrite(names, name) ==
    IF \E i \in 1..Len(names) : names[i] = name THEN {names}
    ELSE { SubSeq(names, 1, i) \o <<name>> \o SubSeq(names, i + 1, Len(names))
           : i \in 0..Len(names) }

\* a save that forgets to invalidate the index
CompiledAfterSaveKept == compiled

\* _compiled after save_data_asset_config (line 66)
CompiledAfterSave == FALSE

\* save_data_asset_config (lines 61-66)
save_data_asset_config(data_asset_config) ==
    /\ files' = Put(files, data_asset_config.data_asset_name, data_asset_config)
    /\ listing' \in ListingsAfterWrite(listing, data_asset_config.data_asset_name)
    /\ compiled' = CompiledAfterSave
    /\ call' = Call("save_data_asset_config", <<>>, NoValidationResults,
                    data_asset_config.data_asset_name, PyNone)
    /\ exc' = "none"
    /\ warnings' = NoWarnings
    /\ ret' = PyNone
    /\ UNCHANGED <<validation_params, compiled_parameters>>

\* _compile (lines 123-205) called on its own
compile ==
    LET r == CompileRun(files, list_data_asset_configs, compiled)
    IN  /\ compiled_parameters' = r.cp
        /\ compiled' = r.compiled
        /\ call' = Call("_compile", <<>>, NoValidationResults, <<>>, PyNone)
        /\ exc' = r.exc
        /\ warnings' = [compile |-> r.warnings, register |-> 0]
        /\ ret' = PyNone
        /\ UNCHANGED <<files, listing, validation_params>>

\* lines 72-73: the index a registration consults
CompileIfStale ==
    IF ~compiled
    THEN CompileRun(files, list_data_asset_configs, compiled)
    ELSE [cp |-> compiled_parameters, warnings |-> 0, exc |-> "none",
          compiled |-> compiled]

\* register_validation_results (lines 71-112); r is the outcome of lines 72-73
register_validation_results(r, run_id, validation_results) ==
        /\ compiled_parameters' = r.cp
        /\ compiled' = r.compiled
        /\ call' = Call("register_validation_results", run_id, validation_results,
                        <<>>, PyNone)
        /\ ret' = PyNone
        /\ IF r.exc # "none"
           THEN /\ exc' = r.exc
                /\ warnings' = [compile |-> r.warnings, register |-> 0]
                /\ UNCHANGED validation_params
           ELSE \E o \in Match(r.cp, validation_params, validation_results) :
                /\ validation_params' = o.vp
                /\ exc' = o.exc
                /\ warnings' = [compile |-> r.warnings, register |-> o.warnings]
        /\ UNCHANGED <<files, listing>>

\* get_validation_param called on its own
GetValidationParam(key) ==
    /\ ret' = get_validation_param(validation_params, key)
    /\ call' = Call("get_validation_param", <<>>, NoValidationResults, key, PyNone)
    /\ exc' = "none"
    /\ warnings' = NoWarnings
    /\ UNCHANGED <<files, listing, validation_params, compiled, compiled_parameters>>

\* a bind that compiles a stale index before it reads the store
BindEvaluationParametersCompiling(run_id) ==
    \E r \in {CompileIfStale} :
        /\ ret' = bind_evaluation_parameters(validation_params, run_id)
        /\ call' = Call("bind_evaluation_parameters", run_id, NoValidationResults, <<>>, PyNone)
        /\ exc' = r.exc
        /\ warnings' = [compile |-> r.warnings, register |-> 0]
        /\ compiled_parameters' = r.cp
        /\ compiled' = r.compiled
        /\ UNCHANGED <<files, listing, validation_params>>

\* bind_evaluation_parameters called on its own
BindEvaluationParameters(run_id) ==
    /\ ret' = bind_evaluation_parameters(validation_params, run_id)
    /\ call' = Call("bind_evaluation_parameters", run_id, NoValidationResults, <<>>, PyNone)
    /\ exc' = "none"
    /\ warnings' = NoWarnings
    /\ UNCHANGED <<files, listing, validation_params, compiled, compiled_parameters>>

\* one more call, while the context may still be called
Called == ncalls < MaxCalls /\ ncalls' = ncalls + 1 /\ UNCHANGED <<pc, locals>>

Save == Called /\ \E cfg \in Configs : save_data_asset_config(cfg)
Compile == Called /\ compile
\* lines 72-73 run once per call, whatever the validation results are
Register == Called /\ \E r \in {CompileIfStale} :
                \E run_id \in RegisterRunIds, vr \in ValidationResults :
                    register_validation_results(r, run_id, vr)
Get == Called /\ \E key \in {U_cc_result, U_cc_details} : GetValidationParam(key)
Bind == Called /\ \E run_id \in RunIds : BindEvaluationParameters(run_id)

Next == Save \/ Compile \/ Register \/ Get \/ Bind

Spec == Init /\ [][Next]_vars

----------------------------------------------------------------------------
(* Threads: calls on one context that interleave between statements.  The   *)
(* class holds no lock; every statement reads self._compiled and            *)
(* self._compiled_parameters afresh.                                        *)

\* the rule sets and run results the threads use
ThreadConfigs ==
    [data_asset_name : {B},
     expectations : { << Rule(K, <<Reference(U_cc_result), Reference(U_cc_details)>>) >>,
                      << Rule(K, <<Reference(U_details)>>) >> }]

ThreadValidationResults ==
    [meta : {MetaOf(A)}, results : { <<>>, <<E_cc>> }] \cup
    [meta : {NoMeta}, results : { <<E_k>> }]

Goto(t, place) == pc' = [pc EXCEPT ![t] = place]

\* what a thread step leaves alone: the record of the last sequential call
ThreadFrame == UNCHANGED <<call, exc, warnings, ret>>

\* save_data_asset_config (lines 61-66) by a thread that is in no call
ThreadSave(t) ==
    /\ pc[t] = "idle"
    /\ Called
    /\ \E cfg \in ThreadConfigs : save_data_asset_config(cfg)

\* register_validation_results is entered (line 71)
BeginRegister(t) ==
    /\ pc[t] = "idle"
    /\ ncalls < MaxCalls
    /\ ncalls' = ncalls + 1
    /\ \E vr \in ThreadValidationResults :
           locals' = [locals EXCEPT ![t] = [NoLocals EXCEPT !.validation_results = vr]]
    /\ Goto(t, "check")
    /\ ThreadFrame
    /\ UNCHANGED <<files, listing, validation_params, compiled, compiled_parameters>>

\* line 72: the staleness check
StalenessCheck(t) ==
    /\ pc[t] = "check"
    /\ Goto(t, IF ~compiled THEN "reset" ELSE "lookup")
    /\ locals' = [locals EXCEPT ![t].checked = compiled_parameters]
    /\ ThreadFrame
    /\ UNCHANGED <<files, listing, validation_params, compiled, compiled_parameters,
                   ncalls>>

\* lines 162-165: the attribute is assigned an empty index
CompileReset(t) ==
    /\ pc[t] = "reset"
    /\ compiled_parameters' = FreshCompiledParameters
    /\ Goto(t, "list")
    /\ ThreadFrame
    /\ UNCHANGED <<files, listing, validation_params, compiled, ncalls, locals>>

\* lines 167-169: the two directory listings
CompileList(t) ==
    /\ pc[t] = "list"
    /\ locals' = [locals EXCEPT ![t].known_assets =
                                    {list_data_asset_configs[i] :
                                        i \in 1..Len(list_data_asset_configs)},
                                ![t].todo = list_data_asset_configs]
    /\ Goto(t, "file")
    /\ ThreadFrame
    /\ UNCHANGED <<files, listing, validation_params, compiled, compiled_parameters,
                   ncalls>>

\* lines 169-204 for the next config file: it is read now, and its parameters
\* go into the index the attribute names now
CompileFile(t) ==
    /\ pc[t] = "file"
    /\ locals[t].todo # <<>>
    /\ \E r \in {CompileLoop(compiled_parameters, locals[t].known_assets,
                             ConfigValues(files[Head(locals[t].todo)].expectations), 0)} :
           /\ compiled_parameters' = r.cp
           /\ locals' = [locals EXCEPT ![t].todo = Tail(@), ![t].exc = r.exc]
           /\ Goto(t, IF r.exc # "none" THEN "idle" ELSE "file")
    /\ ThreadFrame
    /\ UNCHANGED <<files, listing, validation_params, compiled, ncalls>>

\* line 205
CompileMark(t) ==
    /\ pc[t] = "file"
    /\ locals[t].todo = <<>>
    /\ compiled' = TRUE
    /\ Goto(t, "lookup")
    /\ locals' = [locals EXCEPT ![t].checked = compiled_parameters]
    /\ ThreadFrame
    /\ UNCHANGED <<files, listing, validation_params, compiled_parameters, ncalls>>

\* lines 75-82: the two early returns read the index
Lookup(t) ==
    /\ pc[t] = "lookup"
    /\ Goto(t, IF /\ "data_asset_name" \in DOMAIN locals[t].validation_results.meta
                  /\ AssetIsIndexed(compiled_parameters,
                                    locals[t].validation_results.meta["data_asset_name"])
               THEN "match" ELSE "idle")
    /\ ThreadFrame
    /\ UNCHANGED <<files, listing, validation_params, compiled, compiled_parameters,
                   ncalls, locals>>

\* lines 84-112: line 86 subscripts the index with the asset name again
MatchResults(t) ==
    /\ pc[t] = "match"
    /\ LET vr == locals[t].validation_results
           name == vr.meta["data_asset_name"]
       IN  \E o \in IF vr.results = <<>>
                    THEN {Progress(validation_params, 0, "none")}
                    ELSE IF ~AssetIsIndexed(compiled_parameters, name)
                    THEN {Progress(validation_params, 0, "KeyError")}
                    ELSE ResultsLoop(compiled_parameters.data_assets[name], vr.results,
                                     Progress(validation_params, 0, "none")) :
               /\ validation_params' = o.vp
               /\ locals' = [locals EXCEPT ![t].exc = o.exc]
    /\ Goto(t, "idle")
    /\ ThreadFrame
    /\ UNCHANGED <<files, listing, compiled, compiled_parameters, ncalls>>

ThreadStep(t) ==
    \/ ThreadSave(t)
    \/ BeginRegister(t)
    \/ StalenessCheck(t)
    \/ CompileReset(t)
    \/ CompileList(t)
    \/ CompileFile(t)
    \/ CompileMark(t)
    \/ Lookup(t)
    \/ MatchResults(t)

NextThreads == \E t \in Threads : ThreadStep(t)

SpecThreads == Init /\ [][NextThreads]_vars

----------------------------------------------------------------------------
(* The identifier layout documented in _compile (lines 130-140) *)

Segment(u, i) == At(Split(u), i)

IsNonColumnForm(u) ==
    /\ StartsWith(u, S_PREFIX)
    /\ Len(Split(u)) = 8
    /\ Segment(u, 4) = S_expectations
    /\ Segment(u, 6) \in {S_result, S_details}

IsColumnForm(u) ==
    /\ StartsWith(u, S_PREFIX)
    /\ Len(Split(u)) = 10
    /\ Segment(u, 4) = S_expectations
    /\ Segment(u, 6) = S_columns
    /\ Segment(u, 8) \in {S_result, S_details}

WellFormed(u) == IsNonColumnForm(u) \/ IsColumnForm(u)
Malformed(u) == StartsWith(u, S_PREFIX) /\ ~WellFormed(u)

AssetOf(u) == Segment(u, 3)
KindOf(u) == Segment(u, 5)
ColumnOf(u) == Segment(u, 7)
BranchOf(u) == IF IsColumnForm(u) THEN Segment(u, 8) ELSE Segment(u, 6)
LeafKeyOf(u) == Last(Split(u))

\* the $PARAMETER texts of the rule sets in the directory
FileParameters ==
    LET values == AllValues(files, listing)
    IN  { values[i].PARAMETER : i \in { j \in 1..Len(values) : values[j].isdict } }

\* by_asset[asset][kind][branch], empty when there is no set at that place
NonColumnLeaf(cp, asset, kind, branch) ==
    LET da == cp.data_assets
    IN  IF /\ asset \in DOMAIN da
           /\ kind \in DOMAIN da[asset]
           /\ branch \in DOMAIN da[asset][kind].sets
        THEN da[asset][kind].sets[branch] ELSE {}

\* by_asset[asset][kind][column][branch]
ColumnLeaf(cp, asset, kind, column, branch) ==
    LET da == cp.data_assets
    IN  IF /\ asset \in DOMAIN da
           /\ kind \in DOMAIN da[asset]
           /\ column \in DOMAIN da[asset][kind].d
           /\ branch \in DOMAIN da[asset][kind].d[column]
        THEN da[asset][kind].d[column][branch] ELSE {}

\* the leaf set an identifier selects by its own segments
OwnLeaf(cp, u) ==
    IF IsColumnForm(u)
    THEN ColumnLeaf(cp, AssetOf(u), KindOf(u), ColumnOf(u), BranchOf(u))
    ELSE IF IsNonColumnForm(u)
    THEN NonColumnLeaf(cp, AssetOf(u), KindOf(u), BranchOf(u))
    ELSE {}

\* the places of all leaf sets of by_asset that contain u
LeafPlaces(cp, u) ==
    LET da == cp.data_assets
    IN  UNION { UNION {
            { <<a, k, b>> : b \in { x \in DOMAIN da[a][k].sets : u \in da[a][k].sets[x] } }
            \cup
            UNION { { <<a, k, c, b>> : b \in { x \in DOMAIN da[a][k].d[c] : u \in da[a][k].d[c][x] } }
                    : c \in DOMAIN da[a][k].d }
            : k \in DOMAIN da[a] } : a \in DOMAIN da }

IsRegistration == call.op = "register_validation_results"
IsCompileCall == call.op = "_compile"
RegisteredAsset == call.validation_results.meta["data_asset_name"]
HasAssetName == "data_asset_name" \in DOMAIN call.validation_results.meta
RegisteredResults == call.validation_results.results

\* a full compile of the rule sets as they stand
FullCompile == CompileRun(files, listing, FALSE)

----------------------------------------------------------------------------
(* Claims *)

\* C1: an index flagged compiled equals a full compile of the rule sets as
\* they stand, and every register_validation_results call either fails in
\* the compile it had to run or matches against exactly that full compile;
\* the context starts not compiled and every save clears the flag.
C1_CompiledIndexIsFresh ==
    compiled => FullCompile.exc = "none" /\ compiled_parameters = FullCompile.cp

C1_RegistrationStep ==
    call'.op = "register_validation_results" =>
        IF compiled'
        THEN \E o \in Match(compiled_parameters', validation_params,
                            call'.validation_results) :
                 /\ validation_params' = o.vp
                 /\ exc' = o.exc
                 /\ warnings'.register = o.warnings
        ELSE LET full == CompileRun(files', listing', FALSE)
             IN  /\ full.exc # "none"
                 /\ exc' = full.exc
                 /\ validation_params' = validation_params

C1_RegisterMatchesFullCompile ==
    [](C1_CompiledIndexIsFresh /\ (call.op = "save_data_asset_config" => ~compiled))
    /\ [][C1_RegistrationStep]_vars

\* a registration that returned after matching against the index of two rule sets
C1_Witness ==
    /\ IsRegistration
    /\ exc = "none"
    /\ compiled
    /\ Cardinality(DOMAIN files) = 2
    /\ compiled_parameters.raw # {}
    /\ HasAssetName
    /\ RegisteredAsset \in DOMAIN compiled_parameters.data_assets

\* C2: bind_evaluation_parameters never fails and returns a mapping; once a
\* value is stored for an identifier, get_validation_param returns it, and
\* bind of the run it was registered under maps the identifier to it.
C2_RoundTrip ==
    /\ call.op = "bind_evaluation_parameters" => exc = "none" /\ ret.t = "dict"
    /\ call.op = "get_validation_param" /\ call.key \in DOMAIN validation_params
           => ret = validation_params[call.key]
    /\ call.op = "bind_evaluation_parameters" /\ call.run_id \in RegisterRunIds
           => \A u \in DOMAIN validation_params :
                  u \in DOMAIN ret.d /\ ret.d[u] = validation_params[u]

\* C3: the top-level keys of validation_params are run ids, and bind of a
\* run under which nothing was registered returns nothing.
C3_KeyedByRunId ==
    /\ \A key \in DOMAIN validation_params : key \in RunIds
    /\ call.op = "bind_evaluation_parameters" /\ call.run_id \notin RegisterRunIds
           => ret = PyDict(EmptyDict)

\* the result entries of the last registration that can resolve u
ResolvingEntries(u) ==
    { i \in 1..Len(RegisteredResults) :
        /\ RegisteredResults[i].expectation_config.expectation_type = KindOf(u)
        /\ LeafKeyOf(u) \in DOMAIN RegisteredResults[i].result }

\* C4: after a registration for asset A with an entry of kind K whose result
\* has the leaf key, a non-column result identifier of A and K held by the
\* index is stored with result[leaf_key].
C4_NonColumnResultStored ==
    \A u \in compiled_parameters.raw :
        ( /\ IsRegistration
          /\ HasAssetName
          /\ IsNonColumnForm(u)
          /\ BranchOf(u) = S_result
          /\ RegisteredAsset = AssetOf(u)
          /\ ResolvingEntries(u) # {} )
        => /\ u \in DOMAIN validation_params
           /\ \E i \in ResolvingEntries(u) :
                  validation_params[u] = RegisteredResults[i].result[LeafKeyOf(u)]

\* C5: after a registration with an entry whose kwargs carry column C and
\* whose result has both leaf keys, a column-scoped identifier for C and a
\* non-column identifier of the same asset and kind are both stored.
C5_BothScopesStored ==
    \A u, v \in compiled_parameters.raw :
        ( /\ IsRegistration
          /\ HasAssetName
          /\ IsColumnForm(u) /\ BranchOf(u) = S_result
          /\ IsNonColumnForm(v) /\ BranchOf(v) = S_result
          /\ AssetOf(u) = RegisteredAsset /\ AssetOf(v) = RegisteredAsset
          /\ KindOf(u) = KindOf(v)
          /\ \E i \in ResolvingEntries(u) \cap ResolvingEntries(v) :
                 LET kwargs == RegisteredResults[i].expectation_config.kwargs
                 IN  "column" \in DOMAIN kwargs /\ kwargs["column"] = ColumnOf(u) )
        => u \in DOMAIN validation_params /\ v \in DOMAIN validation_params

\* C6: after _compile, every well-formed identifier of the rule sets is in
\* the leaf set selected by its own segments.
C6_PlacedInOwnLeaf ==
    IsCompileCall =>
        \A u \in FileParameters :
            WellFormed(u) => u \in OwnLeaf(compiled_parameters, u)

\* C7: in a compiled index every identifier of raw is in exactly one leaf
\* set, its own, and a malformed identifier of the rule sets is neither in
\* raw nor in a leaf set.
C7_RawMatchesLeaves ==
    compiled =>
        /\ \A u \in compiled_parameters.raw :
               /\ u \in OwnLeaf(compiled_parameters, u)
               /\ Cardinality(LeafPlaces(compiled_parameters, u)) = 1
        /\ \A u \in FileParameters :
               Malformed(u) => /\ u \notin compiled_parameters.raw
                               /\ LeafPlaces(compiled_parameters, u) = {}

\* C8: a _compile over rule sets that hold a malformed identifier finishes,
\* marks the index compiled and has placed every well-formed identifier.
C8_MalformedNeverAborts ==
    IsCompileCall /\ (\E m \in FileParameters : Malformed(m)) =>
        /\ exc = "none"
        /\ compiled
        /\ \A u \in FileParameters :
               WellFormed(u) => u \in OwnLeaf(compiled_parameters, u)

\* C9: a _compile leaves the index that the loops build from an empty index,
\* whatever index it replaces, and a _compile right after a _compile leaves
\* an index equal by value.
C9_EmptyIndex == [raw |-> {}, data_assets |-> <<>>]

C9_CompileStep ==
    call'.op = "_compile" =>
        /\ compiled_parameters' =
               CompileLoop(C9_EmptyIndex, {listing'[i] : i \in 1..Len(listing')},
                           AllValues(files', listing'), 0).cp
        /\ (call.op = "_compile" => compiled_parameters' = compiled_parameters)

C9_FullRebuildIdempotent == [][C9_CompileStep]_vars

\* a _compile that finished on two rule sets and built a non-empty index
C9_Witness ==
    /\ IsCompileCall
    /\ exc = "none"
    /\ compiled
    /\ Cardinality(DOMAIN files) = 2
    /\ compiled_parameters.raw # {}
    /\ compiled_parameters.data_assets # <<>>

\* a registration that got past line 75 and found its asset absent from the index
C10_AbsentAssetStep ==
    /\ call'.op = "register_validation_results"
    /\ exc' = "none"
    /\ "data_asset_name" \in DOMAIN call'.validation_results.meta
    /\ call'.validation_results.meta["data_asset_name"]
           \notin DOMAIN compiled_parameters'.data_assets

\* C10 as stated: such a registration leaves the store unchanged and emits
\* no warning at all.
C10_NoWarningAtAll ==
    [][C10_AbsentAssetStep =>
           validation_params' = validation_params /\ warnings' = NoWarnings]_vars

\* C10 amended: such a registration leaves the store unchanged and its
\* matching emits no warning; the warnings of the call are those of the
\* _compile it ran because the index was stale.
C10_NoMatcherWarning ==
    [][C10_AbsentAssetStep =>
           /\ validation_params' = validation_params
           /\ warnings'.register = 0
           /\ (compiled => warnings' = NoWarnings)]_vars

\* a registration with result entries short-circuited over a non-empty store
C10_Witness ==
    /\ IsRegistration
    /\ exc = "none"
    /\ HasAssetName
    /\ RegisteredAsset \notin DOMAIN compiled_parameters.data_assets
    /\ RegisteredResults # <<>>
    /\ validation_params # <<>>
    /\ compiled_parameters.data_assets # <<>>

\* C11: a registration whose meta has no data_asset_name logs a warning,
\* returns without raising and leaves the store unchanged.
C11_MissingNameIsNoOp ==
    [][(call'.op = "register_validation_results"
        /\ "data_asset_name" \notin DOMAIN call'.validation_results.meta)
       => /\ exc' = "none"
          /\ warnings'.register >= 1
          /\ validation_params' = validation_params]_vars

\* the result entries of the registration being made that match u: its rule
\* kind, and its column when u is column-scoped
C12_MatchingEntries(u) ==
    { i \in 1..Len(call'.validation_results.results) :
        LET entry == call'.validation_results.results[i]
        IN  /\ entry.expectation_config.expectation_type = KindOf(u)
            /\ IsColumnForm(u) =>
                   /\ "column" \in DOMAIN entry.expectation_config.kwargs
                   /\ entry.expectation_config.kwargs["column"] = ColumnOf(u) }

\* the leaf key of u is absent from the map of its branch in the entry
C12_Unresolved(u, entry) ==
    IF BranchOf(u) = S_result
    THEN LeafKeyOf(u) \notin DOMAIN entry.result
    ELSE \/ S_details \notin DOMAIN entry.result
         \/ entry.result[S_details].t # "dict"
         \/ LeafKeyOf(u) \notin DOMAIN entry.result[S_details].d

\* C12: a registration for an asset with an indexed identifier that matches
\* entries of the run result, none of which holds its leaf key, returns
\* without raising, logs a warning and leaves the identifier as it was in the
\* store.
C12_UnresolvedKeyWarns ==
    [][\A u \in compiled_parameters'.raw :
          ( /\ call'.op = "register_validation_results"
            /\ compiled'
            /\ "data_asset_name" \in DOMAIN call'.validation_results.meta
            /\ call'.validation_results.meta["data_asset_name"] = AssetOf(u)
            /\ u \in OwnLeaf(compiled_parameters', u)
            /\ C12_MatchingEntries(u) # {}
            /\ \A i \in C12_MatchingEntries(u) :
                   C12_Unresolved(u, call'.validation_results.results[i]) )
          => /\ exc' = "none"
             /\ warnings'.register >= 1
             /\ (u \in DOMAIN validation_params' <=> u \in DOMAIN validation_params)
             /\ (u \in DOMAIN validation_params
                    => validation_params'[u] = validation_params[u])]_vars

\* C13: a registration under run r upserts into the entries of run r only:
\* every top-level entry of the store other than r's is left as it was, so
\* that the last value written for (r, identifier) is the one held for it and
\* the entries of every other run are unchanged.
C13_UpsertPerRun ==
    [][call'.op = "register_validation_results"
       => \A key \in (DOMAIN validation_params \cup DOMAIN validation_params')
                        \ {call'.run_id} :
              /\ key \in DOMAIN validation_params
              /\ key \in DOMAIN validation_params'
              /\ validation_params'[key] = validation_params[key]]_vars

\* C14: no call removes a key from the store.
C14_StoreOnlyGrows ==
    [][DOMAIN validation_params \subseteq DOMAIN validation_params']_vars

\* two keys stored by a registration are still there after a later save or
\* _compile
C14_Witness ==
    /\ call.op \in {"save_data_asset_config", "_compile"}
    /\ Cardinality(DOMAIN validation_params) = 2

\* the result entries of the last registration that match u (rule kind, and
\* column for a column-scoped u) and hold the leaf key of u in the result map
C16_ResolvingEntries(u) ==
    { i \in ResolvingEntries(u) :
        IsColumnForm(u) =>
            /\ "column" \in DOMAIN RegisteredResults[i].expectation_config.kwargs
            /\ RegisteredResults[i].expectation_config.kwargs["column"] = ColumnOf(u) }

\* C16: after a registration for an asset that has no rule-set config, a
\* result identifier of that asset that the index holds in its own leaf set,
\* and that an entry of the run result resolves, is stored with the entry's
\* value.
C16_UnknownAssetStillMatched ==
    \A u \in compiled_parameters.raw :
        ( /\ IsRegistration
          /\ compiled
          /\ HasAssetName
          /\ RegisteredAsset = AssetOf(u)
          /\ RegisteredAsset \notin DOMAIN files
          /\ WellFormed(u) /\ BranchOf(u) = S_result
          /\ u \in OwnLeaf(compiled_parameters, u)
          /\ C16_ResolvingEntries(u) # {} )
        => /\ u \in DOMAIN validation_params
           /\ \E i \in C16_ResolvingEntries(u) :
                  validation_params[u] = RegisteredResults[i].result[LeafKeyOf(u)]

\* C17: when a registration writes a details identifier into the store, the
\* value written is details[leaf_key] of an entry of the run result.
C17_DetailsValueStored ==
    [][\A u \in DOMAIN validation_params' :
          ( /\ call'.op = "register_validation_results"
            /\ WellFormed(u) /\ BranchOf(u) = S_details
            /\ (u \in DOMAIN validation_params
                    => validation_params'[u] # validation_params[u]) )
          => \E i \in 1..Len(call'.validation_results.results) :
                 LET result == call'.validation_results.results[i].result
                 IN  /\ S_details \in DOMAIN result
                     /\ LeafKeyOf(u) \in DOMAIN result[S_details].d
                     /\ validation_params'[u] =
                            PyInt(result[S_details].d[LeafKeyOf(u)])]_vars

\* the identifiers of the rule sets that _compile respects
C18_CompiledFileParameters == { u \in FileParameters : StartsWith(u, S_PREFIX) }

\* C18: after _compile, raw holds only references of the rule sets that start
\* with the validations prefix, no other text is in a leaf set, and rule sets
\* without such a reference leave the index empty and log no warning.
C18_OnlyValidationsReferences ==
    IsCompileCall =>
        /\ compiled_parameters.raw \subseteq C18_CompiledFileParameters
        /\ \A u \in FileParameters \ C18_CompiledFileParameters :
               LeafPlaces(compiled_parameters, u) = {}
        /\ C18_CompiledFileParameters = {} =>
               /\ compiled_parameters = C9_EmptyIndex
               /\ warnings.compile = 0
               /\ exc = "none"

\* a _compile over a literal, a reference with another prefix and a
\* validations reference
C18_Witness ==
    /\ IsCompileCall
    /\ exc = "none"
    /\ U_other \in FileParameters
    /\ \E name \in DOMAIN files :
           \E i \in 1..Len(files[name].expectations) :
               \E j \in 1..Len(files[name].expectations[i].kwargs) :
                   ~files[name].expectations[i].kwargs[j].isdict
    /\ compiled_parameters.raw # {}

\* C19: after every registration that returned the index is marked compiled,
\* and only save_data_asset_config clears the mark.
C19_ReturnedRegistrationCompiled ==
    /\ [](IsRegistration /\ exc = "none" => compiled)
    /\ [][compiled /\ ~compiled' => call'.op = "save_data_asset_config"]_vars

\* a registration without data_asset_name that returned early after compiling
\* the rule sets saved before it
C19_Witness ==
    /\ IsRegistration
    /\ exc = "none"
    /\ ~HasAssetName
    /\ warnings.register = 1
    /\ DOMAIN files # {}
    /\ compiled_parameters.raw # {}

\* C20: _compile and save_data_asset_config leave the store unchanged;
\* bind_evaluation_parameters and get_validation_param leave the store, the
\* index and the compiled mark unchanged.
C20_FrameConditions ==
    [][/\ call'.op \in {"_compile", "save_data_asset_config"}
          => validation_params' = validation_params
       /\ call'.op \in {"bind_evaluation_parameters", "get_validation_param"}
          => /\ validation_params' = validation_params
             /\ compiled_parameters' = compiled_parameters
             /\ compiled' = compiled]_vars

\* a bind on a context with a non-empty store and a stale index over saved
\* rule sets
C20_Witness ==
    /\ call.op = "bind_evaluation_parameters"
    /\ ~compiled
    /\ DOMAIN files # {}
    /\ validation_params # <<>>

\* the places of a thread between the reset of the index and line 205
C15_Building == {"list", "file"}

\* C15: a thread that has passed its staleness check never reads (lines 78
\* and 86) an index that another thread's compile has reset and not yet
\* finished populating: while another thread is between the reset and line
\* 205, the index a reader sees is still the one that stood when it passed
\* the check, or the full compile of the rule sets.
C15_ReadersSeeCompleteIndex ==
    [][\A t \in Threads :
          ( /\ pc[t] \in {"lookup", "match"}
            /\ pc'[t] # pc[t]
            /\ \E o \in Threads \ {t} : pc[o] \in C15_Building )
          => \/ compiled_parameters = locals[t].checked
             \/ compiled_parameters = FullCompile.cp]_vars

====
